---- MODULE Spec2Model ----
(***************************************************************************)
(* Card editor of src/script.js: the card store (cards, cardIdCounter),    *)
(* the reorder arithmetic, the HTML renderer (generateHTML) and the HTML   *)
(* extractor (parseHTMLToCards), with localStorage persistence.            *)
(*                                                                         *)
(* Text is a sequence of tokens.  A token is one character ("1", "2",      *)
(* " ", "\n", "<", "&"), one character reference ("&amp;", "&lt;") or one  *)
(* tag ("<br>", "<div class=\"spec-card\">", "</div>", ...); a run of       *)
(* ordinary characters that is never taken apart ("New Card Title") is one *)
(* token too.  The ordinary characters users type are digits, so that a    *)
(* "<" or "&" typed before them is text for an HTML parser (not the start  *)
(* of a tag or of a character reference).                                  *)
(***************************************************************************)
EXTENDS Integers, Sequences, FiniteSets, TLC

VARIABLES phase, cards, cardIdCounter, storage, codeTextarea, dragState,
          pending, toast, last, issued, seen, steps

vars == <<phase, cards, cardIdCounter, storage, codeTextarea, dragState,
          pending, toast, last, issued, seen, steps>>

(* ------------------------------ bounds -------------------------------- *)
\* the session: cards in the store, the value of cardIdCounter, operations
MaxCards == 3
MaxCounter == 4
MaxSteps == 6
\* the reorder runs: cards in the list, operations
MaxList == 3
ReorderOps == 3
\* the height of a card's editor, in pixels
CardHeight == 2
\* the render and extract runs: tokens of a typed text, operations
MaxLen == 3
ExtractOps == 2
\* the persistence runs: lines of a stored array, operations
MaxLines == 2
PersistOps == 3
\* the import runs: operations
ImportOps == 3
\* the refresh runs: operations
RefreshOps == 4

(* ------------------------- sequences and text -------------------------- *)
Range(s) == {s[i] : i \in 1..Len(s)}

\* F applied to the value of x, and to the values of x and y: the value is
\* computed once, however often F uses it
With(x, F(_)) == CHOOSE r \in {F(v) : v \in {x}} : TRUE
With2(x, y, F(_, _)) == CHOOSE r \in {F(v, w) : v \in {x}, w \in {y}} : TRUE

\* the concatenation of ss[lo..hi]
RECURSIVE ConcatRange(_, _, _)
ConcatRange(ss, lo, hi) ==
  IF lo > hi THEN <<>>
  ELSE IF lo = hi THEN ss[lo]
  ELSE With((lo + hi) \div 2,
            LAMBDA mid : ConcatRange(ss, lo, mid) \o ConcatRange(ss, mid + 1, hi))

Concat(ss) == With(ss, LAMBDA v : ConcatRange(v, 1, Len(v)))

\* Array.prototype.join over token sequences
Join(parts, sep) ==
  With2(parts, sep, LAMBDA ps, sp :
    IF Len(ps) = 0 THEN <<>>
    ELSE Concat([i \in 1..(2 * Len(ps) - 1) |->
                   IF i % 2 = 1 THEN ps[(i + 1) \div 2] ELSE sp]))

\* String.prototype.split for a separator that is one token of seps:
\* always at least one piece, "".split gives one empty piece
Split(s, seps) ==
  With(s, LAMBDA v :
    With({i \in 1..Len(v) : v[i] \in seps}, LAMBDA at :
      \* pos[k]: the k-th separator position, 0 before the first, Len + 1 after
      \* the last
      With([k \in 0..(Cardinality(at) + 1) |->
              IF k = 0 THEN 0
              ELSE IF k > Cardinality(at) THEN Len(v) + 1
              ELSE CHOOSE i \in at : Cardinality({j \in at : j < i}) = k - 1],
           LAMBDA pos :
             [k \in 1..(Cardinality(at) + 1) |->
                SubSeq(v, pos[k - 1] + 1, pos[k] - 1)])))

\* a token of whitespace only: a space, a line break, a run of indentation
WhiteSpace == {" ", "\n", "  ", "    ", "      "}

\* String.prototype.trim
Trim(s) ==
  With(s, LAMBDA v :
    With({i \in 1..Len(v) : v[i] \notin WhiteSpace}, LAMBDA ink :
      IF ink = {} THEN <<>>
      ELSE SubSeq(v, CHOOSE i \in ink : \A j \in ink : i <= j,
                     CHOOSE i \in ink : \A j \in ink : j <= i)))

MapSeq(s, F(_)) == With(s, LAMBDA v : [i \in 1..Len(v) |-> F(v[i])])

NonEmpty(s) == s # <<>>
NonBlank(s) == Trim(s) # <<>>

\* the indentation of the template literals, one token per run
Spaces(n) == CASE n = 2 -> <<"  ">> [] n = 4 -> <<"    ">> [] n = 6 -> <<"      ">>

(* ------------------------------ the store ------------------------------ *)
\* "New Card Title" and "Row 1\nRow 2": a run of ordinary characters is one token
DefaultTitle == <<"New Card Title">>
DefaultRows == <<"Row 1", "\n", "Row 2">>

\* a counter that does not advance
NextIdStays(counter) == counter

\* ++cardIdCounter
NextId(counter) == counter + 1

\* a new card with the title of a card that has none
NewCardUntitled(id) == [id |-> id, title |-> <<"Untitled">>, rows |-> DefaultRows]

NewCard(id) == [id |-> id, title |-> DefaultTitle, rows |-> DefaultRows]

Ids(cs) == {cs[i].id : i \in 1..Len(cs)}
IdSeq(cs) == [i \in 1..Len(cs) |-> cs[i].id]

\* Array.prototype.findIndex: 0-based, -1 when no card has the id
FindIndex(cs, id) ==
  IF \E i \in 1..Len(cs) : cs[i].id = id
  THEN (CHOOSE i \in 1..Len(cs) :
          cs[i].id = id /\ \A j \in 1..(i - 1) : cs[j].id # id) - 1
  ELSE -1

\* a removal that removes nothing
SpliceOutKeeps(cs, index) == cs

\* cards.splice(index, 1): the list without the element at 0-based index
SpliceOut(cs, index) ==
  [i \in 1..(Len(cs) - 1) |-> IF i <= index THEN cs[i] ELSE cs[i + 1]]

\* cards.splice(index, 0, x): a start beyond the length is the length
SpliceIn(cs, index, x) ==
  LET at == IF index > Len(cs) THEN Len(cs)
            ELSE IF index < 0 THEN (IF Len(cs) + index < 0 THEN 0 ELSE Len(cs) + index)
            ELSE index
  IN  [i \in 1..(Len(cs) + 1) |->
         IF i <= at THEN cs[i] ELSE IF i = at + 1 THEN x ELSE cs[i - 1]]

\* clientY < rect.top + rect.height / 2
InsertBefore(clientY, rect) == 2 * clientY < 2 * rect.top + rect.height

\* the insertion index without the compensation for the removal
NewIndexWrong(draggedIndex, targetIndex, insertBefore) ==
  IF insertBefore THEN targetIndex ELSE targetIndex + 1

\* reorderCards: the insertion index in the list without the dragged card
NewIndex(draggedIndex, targetIndex, insertBefore) ==
  IF insertBefore
  THEN (IF targetIndex > draggedIndex THEN targetIndex - 1 ELSE targetIndex)
  ELSE (IF targetIndex > draggedIndex THEN targetIndex ELSE targetIndex + 1)

\* a guard that forgets the target
MissingDraggedOnly(draggedIndex, targetIndex) == draggedIndex = -1

\* draggedIndex === -1 || targetIndex === -1
Missing(draggedIndex, targetIndex) == draggedIndex = -1 \/ targetIndex = -1

\* reorderCards, the list it leaves in cards
reorderCards(cs, draggedCardId, targetCardId, clientY, rect) ==
  LET draggedIndex == FindIndex(cs, draggedCardId)
      targetIndex == FindIndex(cs, targetCardId)
  IN  IF Missing(draggedIndex, targetIndex) THEN cs
      ELSE LET insertBefore == InsertBefore(clientY, rect)
               draggedCard == cs[draggedIndex + 1]
               rest == SpliceOut(cs, draggedIndex)
           IN  SpliceIn(rest, NewIndex(draggedIndex, targetIndex, insertBefore),
                        draggedCard)

\* the drop handler of the first editor version, the list it leaves in cards
DropInline(cs, draggedCardId, targetCardId, clientY, rect) ==
  IF draggedCardId = targetCardId THEN cs
  ELSE LET draggedIndex == FindIndex(cs, draggedCardId)
           targetIndex == FindIndex(cs, targetCardId)
       IN  IF Missing(draggedIndex, targetIndex) THEN cs
           ELSE LET insertBefore == InsertBefore(clientY, rect)
                    draggedCard == cs[draggedIndex + 1]
                    rest == SpliceOut(cs, draggedIndex)
                    first == IF insertBefore THEN targetIndex ELSE targetIndex + 1
                    newIndex == IF draggedIndex < targetIndex /\ ~insertBefore
                                THEN first - 1 ELSE first
                IN  SpliceIn(rest, newIndex, draggedCard)

(* ------------------------------ markup --------------------------------- *)
Tag(tok, name, cls) == [tok |-> tok, name |-> name, cls |-> cls]

\* the start tags of the modelled vocabulary, with tag name and class list
OpenTags ==
  { Tag("<html lang=\"de\">", "html", {}),
    Tag("<head>", "head", {}),
    Tag("<style>", "style", {}),
    Tag("<body>", "body", {}),
    Tag("<div class=\"specs-container\">", "div", {"specs-container"}),
    Tag("<div class=\"spec-card\">", "div", {"spec-card"}),
    Tag("<div class=\"spec-header\">", "div", {"spec-header"}),
    Tag("<div class=\"spec-content\">", "div", {"spec-content"}),
    Tag("<div>", "div", {}),
    Tag("<div class=\"card\">", "div", {"card"}),
    Tag("<div class=\"item\">", "div", {"item"}),
    Tag("<div class=\"my-card\">", "div", {"my-card"}),
    Tag("<div class=\"title\">", "div", {"title"}),
    Tag("<div class=\"text\">", "div", {"text"}),
    Tag("<article>", "article", {}),
    Tag("<section>", "section", {}),
    Tag("<h2>", "h2", {}),
    Tag("<p>", "p", {}),
    Tag("<span>", "span", {}) }

\* void elements, with the form innerHTML gives them
VoidTags ==
  { [tok |-> "<br>", name |-> "br", out |-> "<br>"],
    [tok |-> "<br/>", name |-> "br", out |-> "<br>"],
    [tok |-> "<br />", name |-> "br", out |-> "<br>"],
    [tok |-> "<meta charset=\"UTF-8\" />", name |-> "meta",
     out |-> "<meta charset=\"UTF-8\">"],
    [tok |-> "<meta charset=\"UTF-8\">", name |-> "meta",
     out |-> "<meta charset=\"UTF-8\">"],
    [tok |-> "<meta name=\"viewport\" />", name |-> "meta",
     out |-> "<meta name=\"viewport\">"] }

CloseTags ==
  { [tok |-> "</html>", name |-> "html"], [tok |-> "</head>", name |-> "head"],
    [tok |-> "</style>", name |-> "style"], [tok |-> "</body>", name |-> "body"],
    [tok |-> "</div>", name |-> "div"], [tok |-> "</article>", name |-> "article"],
    [tok |-> "</section>", name |-> "section"], [tok |-> "</h2>", name |-> "h2"],
    [tok |-> "</p>", name |-> "p"], [tok |-> "</span>", name |-> "span"] }

IsOpen(tok) == \E r \in OpenTags : r.tok = tok
IsVoid(tok) == \E r \in VoidTags : r.tok = tok
IsClose(tok) == \E r \in CloseTags : r.tok = tok
TagOf(tok) == CHOOSE r \in OpenTags : r.tok = tok
VoidOf(tok) == CHOOSE r \in VoidTags : r.tok = tok
CloseName(tok) == (CHOOSE r \in CloseTags : r.tok = tok).name
CloseTok(name) == (CHOOSE r \in CloseTags : r.name = name).tok

Doctype == "<!DOCTYPE html>"

\* a character reference is the character it names
Decode(tok) ==
  CASE tok = "&amp;" -> "&"
    [] tok = "&lt;" -> "<"
    [] OTHER -> tok

\* the text of a text node as innerHTML writes it
EscapeChar(c) ==
  CASE c = "&" -> "&amp;"
    [] c = "<" -> "&lt;"
    [] c = "<br>" -> "&lt;br&gt;"
    [] OTHER -> c

\* escapeHtml: textContent in, innerHTML out
escapeHtml(text) == [i \in 1..Len(text) |-> EscapeChar(text[i])]

(* A node is [t, kids]: an element has its start tag as t, a text node has *)
(* one character as t and no kids.                                         *)
TextNode(c) == [t |-> c, kids |-> <<>>]
IsElement(n) == IsOpen(n.t) \/ IsVoid(n.t)
ElemName(n) == IF IsOpen(n.t) THEN TagOf(n.t).name ELSE VoidOf(n.t).name
ElemClass(n) == IF IsOpen(n.t) THEN TagOf(n.t).cls ELSE {}

AppendKid(stack, node) ==
  [stack EXCEPT ![Len(stack)].kids = Append(@, node)]

\* close the open elements from the innermost down to stack[k]
PopTo(stack, k) ==
  With(stack, LAMBDA st :
    IF k > Len(st) THEN st
    ELSE LET Closed[j \in k..(Len(st) + 1)] ==
               IF j = Len(st) + 1 THEN <<>>
               ELSE <<[t |-> st[j].t, kids |-> st[j].kids \o Closed[j + 1]]>>
         IN  AppendKid(SubSeq(st, 1, k - 1), Closed[k][1]))

\* one token of tree construction: stack[1] is the root, the others the open
\* elements; an end tag closes the innermost open element of its name, and is
\* dropped when there is none
BuildStep(stack, tok, ignored) ==
  IF tok \in ignored \/ tok = Doctype THEN stack
  ELSE IF IsVoid(tok) THEN AppendKid(stack, [t |-> tok, kids |-> <<>>])
  ELSE IF IsOpen(tok) THEN Append(stack, [t |-> tok, kids |-> <<>>])
  ELSE IF IsClose(tok)
    THEN LET open == {k \in 2..Len(stack) : TagOf(stack[k].t).name = CloseName(tok)}
         IN  IF open = {} THEN stack
             ELSE PopTo(stack, CHOOSE k \in open : \A j \in open : j <= k)
  ELSE AppendKid(stack, TextNode(Decode(tok)))

\* the stack after the tokens lo..hi
RECURSIVE BuildRange(_, _, _, _, _)
BuildRange(toks, lo, hi, stack, ignored) ==
  IF lo > hi THEN stack
  ELSE IF lo = hi THEN BuildStep(stack, toks[lo], ignored)
  ELSE With((lo + hi) \div 2, LAMBDA mid :
         With(BuildRange(toks, lo, mid, stack, ignored),
              LAMBDA s : BuildRange(toks, mid + 1, hi, s, ignored)))

Build(toks, ignored) ==
  With(toks, LAMBDA v :
    PopTo(BuildRange(v, 1, Len(v), <<[t |-> "#root", kids |-> <<>>]>>, ignored),
          2)[1].kids)

\* new DOMParser().parseFromString(htmlContent, "text/html")
ParseDocument(toks) == Build(toks, {})

\* tempDiv.innerHTML = htmlContent: the tags of the document wrapper are dropped
WrapperTokens == {"<html lang=\"de\">", "</html>", "<head>", "</head>",
                  "<body>", "</body>"}
ParseFragment(toks) == Build(toks, WrapperTokens)

\* the markup of a node as innerHTML writes it
RECURSIVE Serialize(_)
Serialize(n) ==
  IF IsVoid(n.t) THEN <<VoidOf(n.t).out>>
  ELSE IF IsOpen(n.t)
    THEN <<n.t>> \o Concat([i \in 1..Len(n.kids) |-> Serialize(n.kids[i])])
         \o <<CloseTok(TagOf(n.t).name)>>
  ELSE <<EscapeChar(n.t)>>

\* element.innerHTML
InnerHTML(n) ==
  With(n, LAMBDA el : Concat([i \in 1..Len(el.kids) |-> Serialize(el.kids[i])]))

RECURSIVE TextOf(_)
TextOf(n) ==
  IF IsElement(n) THEN Concat([i \in 1..Len(n.kids) |-> TextOf(n.kids[i])])
  ELSE <<n.t>>

\* element.textContent
TextContent(n) ==
  With(n, LAMBDA el : Concat([i \in 1..Len(el.kids) |-> TextOf(el.kids[i])]))

\* element.children
Children(n) == SelectSeq(n.kids, IsElement)

\* the elements among the nodes and below them, in document order
RECURSIVE Descendants(_)
Descendants(ns) ==
  With(ns, LAMBDA v :
    Concat([i \in 1..Len(v) |->
              IF IsElement(v[i]) THEN <<v[i]>> \o Descendants(v[i].kids) ELSE <<>>]))

ClassSel(c) == [kind |-> "class", v |-> c]
TagSel(n) == [kind |-> "tag", v |-> n]
\* the class names of the vocabulary that contain "card"
CardClassNames == {"spec-card", "card", "my-card"}

Matches(n, sel) ==
  CASE sel.kind = "class" -> sel.v \in ElemClass(n)
    [] sel.kind = "tag" -> ElemName(n) = sel.v
    [] sel.kind = "divClassHasCard" ->
         ElemName(n) = "div" /\ ElemClass(n) \cap CardClassNames # {}

\* querySelectorAll: the matching elements below the roots, in document order
QuerySelectorAll(ns, sel) ==
  LET Hit(n) == Matches(n, sel) IN SelectSeq(Descendants(ns), Hit)

\* querySelector: the first match, as a list of zero or one element
QuerySelector(n, sel) ==
  With(QuerySelectorAll(n.kids, sel),
       LAMBDA all : IF all = <<>> THEN <<>> ELSE <<all[1]>>)

(* ----------------------------- generateHTML ---------------------------- *)
NL == <<"\n">>

\* (typeof x === "string" ? x : x.join("\n")).split("\n").filter(line => line.trim())
LinesOf(text) == SelectSeq(Split(text, {"\n"}), NonBlank)

\* a line goes into the template literal as it is: generateHTML does not call
\* escapeHtml
CardLine(line) == line

\* the template literal of one card
CardHTML(card) ==
  LET titleLines == MapSeq(LinesOf(card.title), CardLine)
      contentLines == MapSeq(LinesOf(card.rows), CardLine)
  IN  NL \o Spaces(2) \o <<"<div class=\"spec-card\">">>
      \o NL \o Spaces(4) \o <<"<div class=\"spec-header\">">>
      \o Join(titleLines, <<"<br />">> \o NL \o Spaces(4)) \o <<"</div>">>
      \o NL \o Spaces(4) \o <<"<div class=\"spec-content\">">>
      \o NL \o Spaces(6)
      \o Join(contentLines, <<"<br />">> \o NL \o Spaces(6))
      \o NL \o Spaces(4) \o <<"</div>">>
      \o NL \o Spaces(2) \o <<"</div>">>

DocHead ==
  <<Doctype>> \o NL \o <<"<html lang=\"de\">">>
  \o NL \o Spaces(2) \o <<"<head>">>
  \o NL \o Spaces(4) \o <<"<meta charset=\"UTF-8\" />">>
  \o NL \o Spaces(4) \o <<"<meta name=\"viewport\" />">>
  \o NL \o Spaces(4) \o <<"<style>", "css", "</style>">>
  \o NL \o Spaces(2) \o <<"</head>">>
  \o NL \o Spaces(2) \o <<"<body>">>
  \o NL \o Spaces(4) \o <<"<div class=\"specs-container\">">>
  \o NL \o Spaces(6)

DocTail ==
  NL \o Spaces(4) \o <<"</div>">>
  \o NL \o Spaces(2) \o <<"</body>">>
  \o NL \o <<"</html>">>

generateHTML(cs) ==
  DocHead \o Join(MapSeq(cs, CardHTML), NL \o Spaces(2)) \o DocTail

\* a refresh that shows the document of the empty store
updatePreviewEmpty(cs) == generateHTML(<<>>)

\* updatePreview: the value it gives the code view
updatePreview(cs) == generateHTML(cs)

(* --------------------------- parseHTMLToCards -------------------------- *)
\* a chain that knows tag names only
cardSelectorsTags == << TagSel("article"), TagSel("section") >>

cardSelectors ==
  << ClassSel("card"), ClassSel("content-card"), ClassSel("item"), ClassSel("box"),
     [kind |-> "divClassHasCard", v |-> "card"], TagSel("article"), TagSel("section") >>

headerSelectors ==
  << ClassSel("header"), ClassSel("title"), ClassSel("card-header"),
     ClassSel("card-title"), TagSel("h1"), TagSel("h2"), TagSel("h3"), TagSel("h4"),
     TagSel("h5"), TagSel("h6"), ClassSel("name"), ClassSel("label") >>

contentSelectors ==
  << ClassSel("content"), ClassSel("body"), ClassSel("card-body"),
     ClassSel("card-content"), ClassSel("description"), ClassSel("text"),
     ClassSel("details"), TagSel("p") >>

\* a chain that takes what every selector finds
FirstMatchingUnion(ns, selectors, i) ==
  Concat([k \in 1..Len(selectors) |-> QuerySelectorAll(ns, selectors[k])])

\* for (const selector of selectors) { ... if (found) break; } over some roots
RECURSIVE FirstMatching(_, _, _)
FirstMatching(ns, selectors, i) ==
  IF i > Len(selectors) THEN <<>>
  ELSE With(QuerySelectorAll(ns, selectors[i]), LAMBDA found :
         IF found # <<>> THEN found ELSE FirstMatching(ns, selectors, i + 1))

\* the first element any selector of the list finds in the block, or none
FirstElement(card, selectors) ==
  With([i \in 1..Len(selectors) |-> QuerySelector(card, selectors[i])],
       LAMBDA firsts :
         With({i \in 1..Len(selectors) : firsts[i] # <<>>}, LAMBDA hit :
           IF hit = {} THEN <<>>
           ELSE firsts[CHOOSE i \in hit : \A j \in hit : i <= j]))

\* the chain cut after the canonical selector
SelectBlocksCanonical(htmlContent) ==
  With(QuerySelectorAll(ParseDocument(htmlContent), ClassSel("spec-card")),
       LAMBDA inDoc :
         IF inDoc # <<>> THEN inDoc
         ELSE QuerySelectorAll(ParseFragment(htmlContent), ClassSel("spec-card")))

\* the block-selection chain: the list of matched blocks
SelectBlocks(htmlContent) ==
  With(QuerySelectorAll(ParseDocument(htmlContent), ClassSel("spec-card")),
       LAMBDA inDoc :
         IF inDoc # <<>> THEN inDoc
         ELSE With(ParseFragment(htmlContent), LAMBDA tempDiv :
                With(QuerySelectorAll(tempDiv, ClassSel("spec-card")),
                     LAMBDA inFragment :
                       IF inFragment # <<>> THEN inFragment
                       ELSE FirstMatching(tempDiv, cardSelectors, 1))))

PlainDiv(kids) == [t |-> "<div>", kids |-> kids]
TextNodes(text) == [i \in 1..Len(text) |-> TextNode(text[i])]

\* the last resort of a block without header and content: its first children,
\* or temporary elements made of its text
Fallback(card) ==
  With2(Children(card), Trim(TextContent(card)), LAMBDA children, textContent :
    IF Len(children) >= 2
      THEN [header |-> <<children[1]>>, content |-> <<children[2]>>]
    ELSE IF Len(children) = 1
      THEN [header |-> <<children[1]>>, content |-> <<children[1]>>]
    ELSE IF textContent = <<>> THEN [header |-> <<>>, content |-> <<>>]
    ELSE With(SelectSeq(MapSeq(Split(textContent, {"\n"}), Trim), NonEmpty),
              LAMBDA lines :
                IF Len(lines) > 1
                  THEN [header |-> <<PlainDiv(TextNodes(lines[1]))>>,
                        content |-> <<PlainDiv(ParseFragment(
                                        Join(Tail(lines), <<"<br>">>)))>>]
                ELSE [header |-> <<PlainDiv(TextNodes(textContent))>>,
                      content |-> <<PlainDiv(TextNodes(textContent))>>]))

\* a resolution that falls back whenever a part is missing
ResolveFalling(card) ==
  With2(FirstElement(card, <<ClassSel("spec-header")>> \o headerSelectors),
        FirstElement(card, <<ClassSel("spec-content")>> \o contentSelectors),
        LAMBDA h, c :
          IF h # <<>> /\ c # <<>> THEN [header |-> h, content |-> c]
          ELSE Fallback(card))

\* headerElement and contentElement of a block, each a list of zero or one element
Resolve(card) ==
  With2(QuerySelector(card, ClassSel("spec-header")),
        QuerySelector(card, ClassSel("spec-content")), LAMBDA h0, c0 :
    IF h0 # <<>> /\ c0 # <<>> THEN [header |-> h0, content |-> c0]
    ELSE With2(IF h0 = <<>> THEN FirstElement(card, headerSelectors) ELSE h0,
               IF c0 = <<>> THEN FirstElement(card, contentSelectors) ELSE c0,
               LAMBDA h1, c1 :
                 IF h1 # <<>> \/ c1 # <<>> THEN [header |-> h1, content |-> c1]
                 ELSE Fallback(card)))

BrTokens == {"<br>", "<br/>", "<br />"}

\* the rows without the split at line-break tags
RowsOfUnsplit(el) == SelectSeq(<<Trim(InnerHTML(el))>>, NonEmpty)

\* el.innerHTML.trim().split(/<br\s*\/?>/i).map(row => row.trim()).filter(row => row)
RowsOf(el) ==
  SelectSeq(MapSeq(Split(Trim(InnerHTML(el)), BrTokens), Trim), NonEmpty)

Untitled == <<"Untitled">>

\* a maxId that does not advance
NextMaxIdStays(maxId) == maxId

\* ++maxId
NextMaxId(maxId) == maxId + 1

\* a callback that counts the block it skips
ParseBlockGap(card, parsedCards, maxId) ==
  With(Resolve(card), LAMBDA r :
    IF r.header = <<>> \/ r.content = <<>>
    THEN [cards |-> parsedCards, maxId |-> maxId + 1]
    ELSE [cards |-> Append(parsedCards,
                      [id |-> maxId + 1,
                       title |-> Join(RowsOf(r.header[1]), NL),
                       rows |-> Join(RowsOf(r.content[1]), NL)]),
          maxId |-> maxId + 1])

\* one call of the forEach callback: parsedCards and maxId after the block, a
\* block without header or content is skipped
ParseBlock(card, parsedCards, maxId) ==
  With(Resolve(card), LAMBDA r :
    IF r.header = <<>> \/ r.content = <<>>
    THEN [cards |-> parsedCards, maxId |-> maxId]
    ELSE With2(RowsOf(r.header[1]), RowsOf(r.content[1]),
               LAMBDA titleRows, contentRows :
                 LET cardId == NextMaxId(maxId)
                 IN  [cards |-> Append(parsedCards,
                        [id |-> cardId,
                         title |-> IF Len(titleRows) > 0 THEN Join(titleRows, NL)
                                   ELSE Untitled,
                         rows |-> IF Len(contentRows) > 0 THEN Join(contentRows, NL)
                                  ELSE <<>>]),
                      maxId |-> cardId]))

\* specCards.forEach from the i-th block on
RECURSIVE ParseBlocks(_, _, _)
ParseBlocks(blocks, i, acc) ==
  IF i > Len(blocks) THEN acc
  ELSE With(ParseBlock(blocks[i], acc.cards, acc.maxId),
            LAMBDA next : ParseBlocks(blocks, i + 1, next))

\* parseHTMLToCards: thrown is the "No cards found in HTML" error
parseHTMLToCards(htmlContent) ==
  With(SelectBlocks(htmlContent), LAMBDA specCards :
    IF Len(specCards) = 0
    THEN [thrown |-> TRUE, cards |-> <<>>, maxId |-> 0]
    ELSE With(ParseBlocks(specCards, 1, [cards |-> <<>>, maxId |-> 0]),
              LAMBDA parsed :
                [thrown |-> FALSE, cards |-> parsed.cards, maxId |-> parsed.maxId]))

(* ------------------------------ the state ------------------------------ *)
(* phase         "loading" until init() has run, then "ready"              *)
(* cards, cardIdCounter   the globals of the script                        *)
(* storage       localStorage: the items specCards and cardIdCounter       *)
(* codeTextarea  the value of the code view                                *)
(* dragState     isDragging, and the card id the drag carries              *)
(* pending       a scheduled animation frame, a running debounce timer     *)
(* toast         the notification shown last: its message and its type     *)
(* last          the operation that ran last, and whether it had its effect *)
(* issued        the ids addCard has given since cardIdCounter was last    *)
(*               assigned a value (clear, import, load, page load)         *)
(* seen          the ids cards of this page load have had                  *)
(* steps         the operations counted against MaxSteps                   *)
Toast(message, type) == [message |-> message, type |-> type]
NoToast == Toast("", "none")
\* an item of localStorage: absent, a text that JSON.parse reads as val, or a
\* text that JSON.parse rejects
NoItem == [has |-> FALSE, valid |-> TRUE, val |-> <<>>]
Item(v) == [has |-> TRUE, valid |-> TRUE, val |-> v]
Garbled == [has |-> TRUE, valid |-> FALSE, val |-> <<>>]

\* a JSON value of a title or rows property: a string, or an array of strings;
\* v is the list of its strings, a string being a list of one
Str(text) == [type |-> "string", v |-> <<text>>]
Arr(lines) == [type |-> "array", v |-> lines]

\* JSON.stringify(cards) as JSON.parse reads it
Stringify(cs) ==
  [i \in 1..Len(cs) |->
     [id |-> cs[i].id, title |-> Str(cs[i].title), rows |-> Str(cs[i].rows)]]

\* lines that run together
JoinLinesNoBreak(lines) == Concat(lines)

\* card.title.join("\n")
JoinLines(lines) == Join(lines, NL)

\* if (Array.isArray(x)) x = x.join("\n")
FromStored(value) == IF value.type = "array" THEN JoinLines(value.v) ELSE value.v[1]

\* JSON.parse(savedCards) and the conversion of the old array format
Parsed(val) ==
  [i \in 1..Len(val) |->
     [id |-> val[i].id, title |-> FromStored(val[i].title),
      rows |-> FromStored(val[i].rows)]]

\* hit: the operation found what it names (the card, both cards, stored cards,
\* an answer of yes, a second write, cards to import); before: insertBefore
Op(name, hit) == [op |-> name, hit |-> hit, before |-> FALSE]

Init ==
  /\ phase = "loading"
  /\ cards = <<>>
  /\ cardIdCounter = 0
  /\ storage = [specCards |-> NoItem, cardIdCounter |-> NoItem]
  /\ codeTextarea = <<>>
  /\ dragState = [isDragging |-> FALSE, data |-> 0]
  /\ pending = [raf |-> FALSE, debounce |-> FALSE]
  /\ toast = NoToast
  /\ last = Op("none", FALSE)
  /\ issued = {}
  /\ seen = {}
  /\ steps = 0

\* the ids an event can name: those of cards, and ids no card has
AnyId == 0..(MaxCounter + 1)
\* where in the target's box the pointer is
Offsets == 0..(CardHeight - 1)
\* getBoundingClientRect of the editor of the card at 0-based index
RectOf(index) == [top |-> CardHeight * index, height |-> CardHeight]

\* one more operation of the session
Tick == steps < MaxSteps /\ steps' = steps + 1

\* a load that does not read the counter
LoadedCardsOnly(cs, counter, store) ==
  [thrown |-> FALSE,
   cards |-> IF store.specCards.has THEN Parsed(store.specCards.val) ELSE cs,
   counter |-> counter]

\* loadData: the cards and the counter it leaves; thrown when JSON.parse throws
\* and the catch block empties both
Loaded(cs, counter, store) ==
  IF store.specCards.has /\ ~store.specCards.valid
  THEN [thrown |-> TRUE, cards |-> <<>>, counter |-> 0]
  ELSE [thrown |-> FALSE,
        cards |-> IF store.specCards.has THEN Parsed(store.specCards.val) ELSE cs,
        counter |-> IF store.cardIdCounter.has THEN store.cardIdCounter.val
                    ELSE counter]

\* init(), run on DOMContentLoaded
InitApp ==
  /\ phase = "loading"
  /\ Tick
  /\ LET l == Loaded(cards, cardIdCounter, storage)
         add == Len(l.cards) = 0
         cs == IF add THEN <<NewCard(NextId(l.counter))>> ELSE l.cards
     IN  /\ cards' = cs
         /\ cardIdCounter' = IF add THEN NextId(l.counter) ELSE l.counter
         /\ codeTextarea' = updatePreview(cs)
         /\ issued' = IF add THEN {NextId(l.counter)} ELSE {}
         /\ seen' = Ids(cs)
  /\ phase' = "ready"
  /\ last' = Op("init", storage.specCards.has /\ storage.specCards.valid)
  /\ UNCHANGED <<storage, dragState, pending, toast>>

addCard ==
  /\ phase = "ready"
  /\ Tick
  /\ cardIdCounter < MaxCounter
  /\ Len(cards) < MaxCards
  /\ cardIdCounter' = NextId(cardIdCounter)
  /\ cards' = Append(cards, NewCard(cardIdCounter'))
  /\ codeTextarea' = updatePreview(cards')
  /\ issued' = issued \cup {cardIdCounter'}
  /\ seen' = seen \cup {cardIdCounter'}
  /\ last' = Op("addCard", TRUE)
  /\ UNCHANGED <<phase, storage, dragState, pending, toast>>

\* a removal that turns the rest around
WithoutReversed(cs, cardId) ==
  With(SelectSeq(cs, LAMBDA card : card.id # cardId), LAMBDA rest :
    [i \in 1..Len(rest) |-> rest[Len(rest) + 1 - i]])

Without(cs, cardId) == SelectSeq(cs, LAMBDA card : card.id # cardId)

deleteCard(cardId) ==
  /\ phase = "ready"
  /\ Tick
  /\ cards' = Without(cards, cardId)
  /\ codeTextarea' = updatePreview(cards')
  /\ last' = Op("deleteCard", cardId \in Ids(cards))
  /\ UNCHANGED <<phase, cardIdCounter, storage, dragState, pending, toast, issued, seen>>

\* the texts typed into the editor's fields
EditTexts == {<<"2">>}

\* cards.find(c => c.id === cardId), then the assignment to its field
WithTitle(cs, cardId, text) ==
  LET i == FindIndex(cs, cardId) IN [cs EXCEPT ![i + 1].title = text]
WithRows(cs, cardId, text) ==
  LET i == FindIndex(cs, cardId) IN [cs EXCEPT ![i + 1].rows = text]

updateCardTitle(cardId, newTitle) ==
  /\ phase = "ready"
  /\ Tick
  /\ IF FindIndex(cards, cardId) # -1
     THEN /\ cards' = WithTitle(cards, cardId, newTitle)
          /\ codeTextarea' = updatePreview(cards')
     ELSE UNCHANGED <<cards, codeTextarea>>
  /\ last' = Op("updateCardTitle", cardId \in Ids(cards))
  /\ UNCHANGED <<phase, cardIdCounter, storage, dragState, pending, toast, issued, seen>>

updateRows(cardId, newContent) ==
  /\ phase = "ready"
  /\ Tick
  /\ IF FindIndex(cards, cardId) # -1
     THEN /\ cards' = WithRows(cards, cardId, newContent)
          /\ codeTextarea' = updatePreview(cards')
     ELSE UNCHANGED <<cards, codeTextarea>>
  /\ last' = Op("updateRows", cardId \in Ids(cards))
  /\ UNCHANGED <<phase, cardIdCounter, storage, dragState, pending, toast, issued, seen>>

\* the box of the target's editor: the target is the card at that place
TargetRect(cs, targetCardId) ==
  RectOf(IF FindIndex(cs, targetCardId) = -1 THEN 0 ELSE FindIndex(cs, targetCardId))

\* a call of reorderCards (first version): the refresh is debounced
ReorderCards(draggedCardId, targetCardId, y) ==
  /\ phase = "ready"
  /\ Tick
  /\ LET rect == TargetRect(cards, targetCardId)
         clientY == rect.top + y
         moved == FindIndex(cards, draggedCardId) # -1 /\ FindIndex(cards, targetCardId) # -1
     IN  /\ cards' = reorderCards(cards, draggedCardId, targetCardId, clientY, rect)
         /\ pending' = IF moved THEN [pending EXCEPT !.debounce = TRUE] ELSE pending
         /\ last' = [op |-> "reorderCards", hit |-> moved,
                     before |-> InsertBefore(clientY, rect)]
  /\ UNCHANGED <<phase, cardIdCounter, storage, codeTextarea, dragState, toast, issued, seen>>

\* dragstart on the handle of a card's editor
DragStart(cardId) ==
  /\ phase = "ready"
  /\ Tick
  /\ cardId \in Ids(cards)
  /\ dragState' = [isDragging |-> TRUE, data |-> cardId]
  /\ last' = Op("dragstart", TRUE)
  /\ UNCHANGED <<phase, cards, cardIdCounter, storage, codeTextarea, pending, toast, issued, seen>>

\* dragend: cleanupDragState
DragEnd ==
  /\ phase = "ready"
  /\ Tick
  /\ dragState.isDragging
  /\ dragState' = [isDragging |-> FALSE, data |-> 0]
  /\ last' = Op("dragend", TRUE)
  /\ UNCHANGED <<phase, cards, cardIdCounter, storage, codeTextarea, pending, toast, issued, seen>>

\* drop on a card's editor, first version: the reorder is computed in the handler
\* and the refresh waits for the next animation frame
Drop(targetCardId, y) ==
  /\ phase = "ready"
  /\ Tick
  /\ dragState.isDragging
  /\ targetCardId \in Ids(cards)
  /\ LET draggedCardId == dragState.data
         rect == TargetRect(cards, targetCardId)
         clientY == rect.top + y
         moved == /\ draggedCardId # targetCardId
                  /\ FindIndex(cards, draggedCardId) # -1
                  /\ FindIndex(cards, targetCardId) # -1
     IN  /\ cards' = DropInline(cards, draggedCardId, targetCardId, clientY, rect)
         /\ pending' = IF moved THEN [pending EXCEPT !.raf = TRUE] ELSE pending
         /\ last' = [op |-> "drop", hit |-> moved, before |-> InsertBefore(clientY, rect)]
  /\ dragState' = [isDragging |-> FALSE, data |-> 0]
  /\ UNCHANGED <<phase, cardIdCounter, storage, codeTextarea, toast, issued, seen>>

\* drop on a card's editor, second version: reorderCards with an immediate refresh
DropV2(draggedCardId, targetCardId, y) ==
  /\ phase = "ready"
  /\ Tick
  /\ targetCardId \in Ids(cards)
  /\ LET rect == TargetRect(cards, targetCardId)
         clientY == rect.top + y
         moved == /\ draggedCardId # targetCardId
                  /\ FindIndex(cards, draggedCardId) # -1
     IN  /\ cards' = IF draggedCardId # targetCardId
                     THEN reorderCards(cards, draggedCardId, targetCardId, clientY, rect)
                     ELSE cards
         /\ codeTextarea' = IF moved THEN updatePreview(cards') ELSE codeTextarea
         /\ last' = [op |-> "dropV2", hit |-> moved,
                     before |-> InsertBefore(clientY, rect)]
  /\ UNCHANGED <<phase, cardIdCounter, storage, dragState, pending, toast, issued, seen>>

\* the callback given to requestAnimationFrame by the drop handler
AnimationFrame ==
  /\ phase = "ready"
  /\ Tick
  /\ pending.raf
  /\ pending' = [pending EXCEPT !.raf = FALSE]
  /\ codeTextarea' = updatePreview(cards)
  /\ last' = Op("animationFrame", TRUE)
  /\ UNCHANGED <<phase, cards, cardIdCounter, storage, dragState, toast, issued, seen>>

\* debouncedUpdate's timer runs out
DebounceTimer ==
  /\ phase = "ready"
  /\ Tick
  /\ pending.debounce
  /\ pending' = [pending EXCEPT !.debounce = FALSE]
  /\ codeTextarea' = updatePreview(cards)
  /\ last' = Op("debounceTimer", TRUE)
  /\ UNCHANGED <<phase, cards, cardIdCounter, storage, dragState, toast, issued, seen>>

\* saveData when both writes succeed
saveData ==
  /\ phase = "ready"
  /\ Tick
  /\ storage' = [specCards |-> Item(Stringify(cards)),
                 cardIdCounter |-> Item(cardIdCounter)]
  /\ toast' = Toast("Data saved successfully!", "success")
  /\ last' = Op("saveData", TRUE)
  /\ UNCHANGED <<phase, cards, cardIdCounter, codeTextarea, dragState, pending, issued, seen>>

\* saveData when localStorage.setItem throws (the quota is exceeded): at the first
\* write nothing is stored, at the second the cards are stored without the counter
saveDataThrows(atSecond) ==
  /\ phase = "ready"
  /\ Tick
  /\ storage' = IF atSecond THEN [storage EXCEPT !.specCards = Item(Stringify(cards))]
                 ELSE storage
  /\ toast' = Toast("Error saving data: ", "error")
  /\ last' = Op("saveDataThrows", atSecond)
  /\ UNCHANGED <<phase, cards, cardIdCounter, codeTextarea, dragState, pending, issued, seen>>

loadData ==
  /\ phase = "ready"
  /\ Tick
  /\ LET l == Loaded(cards, cardIdCounter, storage)
     IN  /\ cards' = l.cards
         /\ cardIdCounter' = l.counter
         /\ codeTextarea' = IF storage.specCards.has /\ ~l.thrown
                            THEN updatePreview(l.cards) ELSE codeTextarea
         /\ issued' = IF storage.cardIdCounter.has \/ l.thrown THEN {} ELSE issued
         /\ seen' = seen \cup Ids(l.cards)
  /\ last' = Op("loadData", storage.specCards.has /\ storage.specCards.valid)
  /\ UNCHANGED <<phase, storage, dragState, pending, toast>>

\* a removal that leaves the stored counter
RemovedCardsOnly(store) == [store EXCEPT !.specCards = NoItem]

\* localStorage.removeItem("specCards"); localStorage.removeItem("cardIdCounter")
Removed(store) == [store EXCEPT !.specCards = NoItem, !.cardIdCounter = NoItem]

\* clearAll, with the answer to confirm()
clearAll(confirmed) ==
  /\ phase = "ready"
  /\ Tick
  /\ IF confirmed
     THEN /\ cards' = <<>>
          /\ cardIdCounter' = 0
          /\ codeTextarea' = updatePreview(<<>>)
          /\ storage' = Removed(storage)
          /\ issued' = {}
     ELSE UNCHANGED <<cards, cardIdCounter, codeTextarea, storage, issued>>
  /\ last' = Op("clearAll", confirmed)
  /\ UNCHANGED <<phase, dragState, pending, toast, seen>>

\* markup pasted or typed into the code view
PastedDocs ==
  { <<" ">>,
    <<"1", "\n", "2">>,
    <<"<div class=\"spec-card\">", "</div>">>,
    <<"<div class=\"card\">", "<h2>", "1", "</h2>", "<p>", "2", "</p>", "</div>",
      "\n", "<div class=\"card\">", "<h2>", "2", "</h2>", "</div>">> }

\* the user edits the code view
EditTextarea(doc) ==
  /\ phase = "ready"
  /\ Tick
  /\ codeTextarea' = doc
  /\ last' = Op("editTextarea", TRUE)
  /\ UNCHANGED <<phase, cards, cardIdCounter, storage, dragState, pending, toast, issued, seen>>

\* an import that takes whatever the extraction returns
ImportOutcomeEager(value) ==
  With(Trim(value), LAMBDA htmlContent :
    IF htmlContent = <<>>
      THEN [kind |-> "empty", cards |-> <<>>, maxId |-> 0,
            message |-> "No HTML content to parse"]
    ELSE With(parseHTMLToCards(htmlContent), LAMBDA result :
           IF result.thrown
             THEN [kind |-> "thrown", cards |-> <<>>, maxId |-> 0,
                   message |-> "Error parsing HTML: No cards found in HTML"]
           ELSE [kind |-> "imported", cards |-> result.cards,
                 maxId |-> result.maxId,
                 message |-> "Successfully imported card(s)!"]))

\* parseFromTextarea: how it ends for a value of the code view
ImportOutcome(value) ==
  With(Trim(value), LAMBDA htmlContent :
    IF htmlContent = <<>>
      THEN [kind |-> "empty", cards |-> <<>>, maxId |-> 0,
            message |-> "No HTML content to parse"]
    ELSE With(parseHTMLToCards(htmlContent), LAMBDA result :
           IF result.thrown
             THEN [kind |-> "thrown", cards |-> <<>>, maxId |-> 0,
                   message |-> "Error parsing HTML: No cards found in HTML"]
           ELSE IF Len(result.cards) = 0
             THEN [kind |-> "none", cards |-> <<>>, maxId |-> 0,
                   message |-> "No valid spec cards found in the HTML"]
           ELSE [kind |-> "imported", cards |-> result.cards,
                 maxId |-> result.maxId,
                 message |-> "Successfully imported card(s)!"]))

parseFromTextarea ==
  /\ phase = "ready"
  /\ Tick
  /\ \E r \in {ImportOutcome(codeTextarea)} :
         IF r.kind = "imported"
         THEN /\ cards' = r.cards
              /\ cardIdCounter' = r.maxId
              /\ codeTextarea' = updatePreview(r.cards)
              /\ toast' = Toast(r.message, "success")
              /\ issued' = {}
              /\ seen' = seen \cup Ids(r.cards)
              /\ last' = Op("parseFromTextarea", TRUE)
         ELSE /\ toast' = Toast(r.message, "error")
              /\ last' = Op("parseFromTextarea", FALSE)
              /\ UNCHANGED <<cards, cardIdCounter, codeTextarea, issued, seen>>
  /\ UNCHANGED <<phase, storage, dragState, pending>>

\* the page is loaded again: the script starts over, localStorage stays
Reload ==
  /\ phase = "ready"
  /\ Tick
  /\ phase' = "loading"
  /\ cards' = <<>>
  /\ cardIdCounter' = 0
  /\ codeTextarea' = <<>>
  /\ dragState' = [isDragging |-> FALSE, data |-> 0]
  /\ pending' = [raf |-> FALSE, debounce |-> FALSE]
  /\ toast' = NoToast
  /\ last' = Op("none", FALSE)
  /\ issued' = {}
  /\ seen' = {}
  /\ UNCHANGED storage

\* what the session types into the code view: blank text, text without markup
SessionDocs == { <<" ">>, <<"1", "\n", "2">> }

Next ==
  \/ InitApp
  \/ addCard
  \/ \E id \in AnyId : deleteCard(id)
  \/ \E id \in AnyId, text \in EditTexts : updateCardTitle(id, text)
  \/ saveData
  \/ \E atSecond \in BOOLEAN : saveDataThrows(atSecond)
  \/ loadData
  \/ \E confirmed \in BOOLEAN : clearAll(confirmed)
  \/ \E doc \in SessionDocs : EditTextarea(doc)
  \/ parseFromTextarea
  \/ Reload

\* the editor session: page load, the store's operations, persistence, import
Spec == Init /\ [][Next]_vars

(* --------------------------- the reorder runs -------------------------- *)
\* the store after init() and further calls of addCard
InitReorder ==
  \E n \in 1..MaxList :
    /\ phase = "ready"
    /\ cards = [i \in 1..n |-> NewCard(i)]
    /\ cardIdCounter = n
    /\ storage = [specCards |-> NoItem, cardIdCounter |-> NoItem]
    /\ codeTextarea = generateHTML(cards)
    /\ dragState = [isDragging |-> FALSE, data |-> 0]
    /\ pending = [raf |-> FALSE, debounce |-> FALSE]
    /\ toast = NoToast
    /\ last = Op("none", FALSE)
    /\ issued = 1..n
    /\ seen = 1..n
    /\ steps = MaxSteps - ReorderOps

NextReorder ==
  \/ \E d \in AnyId, t \in AnyId, y \in Offsets : ReorderCards(d, t, y)
  \/ DebounceTimer
  \/ \E id \in AnyId : DragStart(id)
  \/ DragEnd
  \/ \E t \in AnyId, y \in Offsets : Drop(t, y)
  \/ AnimationFrame
  \/ \E d \in AnyId, t \in AnyId, y \in Offsets : DropV2(d, t, y)
  \/ \E id \in AnyId : deleteCard(id)

\* calls of reorderCards and drops of both editor versions on lists of cards
SpecReorder == InitReorder /\ [][NextReorder]_vars

(* ----------------------- the render and extract runs ------------------- *)
\* what a user types into a title or rows field
Alphabet == {"1", " ", "\n", "<", "&", "<br>"}
Texts == UNION {[1..n -> Alphabet] : n \in 0..MaxLen}
Card(id, title, rows) == [id |-> id, title |-> title, rows |-> rows]

\* stores whose fields were edited: one card with any title, one card with any
\* rows, two cards out of id order
ExtractLists ==
  {<<>>}
  \cup {<<Card(1, t, DefaultRows)>> : t \in Texts}
  \cup {<<Card(1, DefaultTitle, r)>> : r \in Texts}
  \cup {<<Card(3, t, t), NewCard(1)>> : t \in {x \in Texts : Len(x) <= 1}}

MaxId(cs) == IF Len(cs) = 0 THEN 0 ELSE CHOOSE m \in Ids(cs) : \A i \in Ids(cs) : i <= m

InitExtract ==
  /\ phase = "ready"
  /\ cards \in ExtractLists
  /\ cardIdCounter = MaxId(cards)
  /\ storage = [specCards |-> NoItem, cardIdCounter |-> NoItem]
  /\ codeTextarea = generateHTML(cards)
  /\ dragState = [isDragging |-> FALSE, data |-> 0]
  /\ pending = [raf |-> FALSE, debounce |-> FALSE]
  /\ toast = NoToast
  /\ last = Op("none", FALSE)
  /\ issued = {}
  /\ seen = Ids(cards)
  /\ steps = MaxSteps - ExtractOps

NextExtract ==
  \/ parseFromTextarea
  \/ addCard
  \/ \E doc \in PastedDocs : EditTextarea(doc)
  \/ \E confirmed \in BOOLEAN : clearAll(confirmed)
  \/ \E id \in AnyId, text \in EditTexts : updateRows(id, text)

\* the preview of an edited store, and what the import reads back from the
\* code view
SpecExtract == InitExtract /\ [][NextExtract]_vars

(* ---------------------------- the import runs ------------------------- *)
\* markup of other pages pasted into the code view: blocks of the generic
\* classes and tags, with headings and paragraphs, with children of no known
\* class, with text only, empty, nested, and canonical blocks that lack a part
ImportDocs ==
  { <<"<div class=\"card\">", "<h2>", "1", "</h2>", "<p>", "2", "</p>", "</div>", "\n",
      "<div class=\"card\">", "<div class=\"title\">", "2", "</div>",
      "<div class=\"text\">", "1", "<br>", "2", "</div>", "</div>">>,
    <<"<div class=\"card\">", "<h2>", "1", "</h2>", "<p>", "2", "</p>", "</div>",
      "<div class=\"card\">", "<h2>", "2", "</h2>", "</div>",
      "<div class=\"card\">", "<span>", "2", "</span>", "<span>", "1", "</span>",
      "</div>">>,
    <<"<div class=\"card\">", "1", "\n", "2", "</div>">>,
    <<"<div class=\"card\">", "</div>">>,
    <<"<div class=\"card\">", "<h2>", "1", "</h2>",
      "<div class=\"card\">", "<p>", "2", "</p>", "</div>", "</div>">>,
    <<"<div class=\"item\">", "<h2>", "2", "</h2>", "<p>", "2", "</p>", "</div>",
      "<div class=\"item\">", " ", "</div>">>,
    <<"<article>", "<span>", "1", "</span>", "</article>",
      "<div class=\"card\">", "<p>", "1", "</p>", "<p>", "1", "</p>", "</div>">>,
    <<"<section>", "<p>", "2", "</p>", "</section>",
      "<article>", "<span>", "1", "</span>", "</article>">>,
    <<"<div class=\"spec-card\">", "<div class=\"spec-header\">", "2", "</div>",
      "</div>",
      "<div class=\"spec-card\">", "</div>",
      "<div class=\"spec-card\">", "<div class=\"spec-header\">", "1", "</div>",
      "<div class=\"spec-content\">", "1", "</div>", "</div>">>,
    <<"<div class=\"my-card\">", "<p>", "1", "</p>", "<p>", "2", "</p>", "</div>",
      "<div class=\"item\">", "<h2>", "2", "</h2>", "<p>", "1", "</p>", "</div>">>,
    <<"<div class=\"card\">", "<h2>", "1", "</h2>", "<p>", "1", "</p>", "</div>",
      "<div class=\"spec-card\">", "<div class=\"spec-header\">", "2", "</div>",
      "<div class=\"spec-content\">", "1", "<br>", "2", "</div>", "</div>">>,
    <<"<section>", "2", "</section>", "\n",
      "<section>", "\n", " ", "1", " ", "\n", "2", "\n", "\n", "1", "</section>">>,
    <<"<div class=\"card\">", "<h2>", "1", " ", "\n", " ", "2", "</h2>",
      "<p>", " ", "1", " ", "<br/>", " ", "<br>", " ", "2", "\n", "</p>", "</div>">>,
    <<"<p>", "1", "</p>">> }

\* the store after init() and further calls of addCard
InitImport ==
  \E n \in 1..2 :
    /\ phase = "ready"
    /\ cards = [i \in 1..n |-> NewCard(i)]
    /\ cardIdCounter = n
    /\ storage = [specCards |-> NoItem, cardIdCounter |-> NoItem]
    /\ codeTextarea = generateHTML(cards)
    /\ dragState = [isDragging |-> FALSE, data |-> 0]
    /\ pending = [raf |-> FALSE, debounce |-> FALSE]
    /\ toast = NoToast
    /\ last = Op("none", FALSE)
    /\ issued = 1..n
    /\ seen = 1..n
    /\ steps = MaxSteps - ImportOps

NextImport ==
  \/ \E doc \in ImportDocs : EditTextarea(doc)
  \/ parseFromTextarea
  \/ addCard
  \/ \E id \in AnyId : deleteCard(id)

\* imports of pasted markup into a store
SpecImport == InitImport /\ [][NextImport]_vars

(* ---------------------------- the refresh runs ------------------------ *)
\* the store after init() and further calls of addCard
InitRefresh ==
  \E n \in 1..2 :
    /\ phase = "ready"
    /\ cards = [i \in 1..n |-> NewCard(i)]
    /\ cardIdCounter = n
    /\ storage = [specCards |-> NoItem, cardIdCounter |-> NoItem]
    /\ codeTextarea = generateHTML(cards)
    /\ dragState = [isDragging |-> FALSE, data |-> 0]
    /\ pending = [raf |-> FALSE, debounce |-> FALSE]
    /\ toast = NoToast
    /\ last = Op("none", FALSE)
    /\ issued = 1..n
    /\ seen = 1..n
    /\ steps = MaxSteps - RefreshOps

NextRefresh ==
  \/ addCard
  \/ \E id \in AnyId : deleteCard(id)
  \/ \E id \in AnyId, text \in EditTexts : updateCardTitle(id, text)
  \/ \E id \in AnyId, text \in EditTexts : updateRows(id, text)
  \/ \E d \in AnyId, t \in AnyId, y \in Offsets : ReorderCards(d, t, y)
  \/ DebounceTimer
  \/ \E id \in AnyId : DragStart(id)
  \/ DragEnd
  \/ \E t \in AnyId, y \in Offsets : Drop(t, y)
  \/ AnimationFrame
  \/ \E d \in AnyId, t \in AnyId, y \in Offsets : DropV2(d, t, y)
  \/ \E doc \in SessionDocs : EditTextarea(doc)
  \/ parseFromTextarea
  \/ \E confirmed \in BOOLEAN : clearAll(confirmed)
  \/ saveData

\* the mutations of the store, the refreshes they schedule, and edits of the
\* code view in between
SpecRefresh == InitRefresh /\ [][NextRefresh]_vars

(* -------------------------- the persistence runs ----------------------- *)
\* the lines of a title or of rows that an earlier version stored as an array
Lines == {<<"1">>, <<"2">>, <<>>}
LineLists == UNION {[1..n -> Lines] : n \in 0..MaxLines}
StoredValues == {Str(DefaultTitle)} \cup {Arr(ls) : ls \in LineLists}

\* what the item specCards holds at page load: cards stored by this version or
\* by one that kept arrays of lines
StoredCards ==
  {<<>>, Stringify(<<NewCard(1), NewCard(2)>>)}
  \cup {<<[id |-> 1, title |-> t, rows |-> Str(DefaultRows)]>> : t \in StoredValues}
  \cup {<<[id |-> 1, title |-> Str(DefaultTitle), rows |-> r]>> : r \in StoredValues}
  \cup {<<[id |-> 2, title |-> Arr(<<<<"1">>, <<"2">>>>), rows |-> Arr(<<<<"2">>>>)],
          [id |-> 1, title |-> Str(DefaultTitle), rows |-> Arr(<<<<"1">>, <<"2">>>>)]>>}

\* the script starts on a page whose localStorage earlier sessions have written:
\* nothing, cards with or without the counter, or a text that is not JSON
InitPersist ==
  /\ phase = "loading"
  /\ cards = <<>>
  /\ cardIdCounter = 0
  /\ \E c \in {NoItem, Garbled} \cup {Item(v) : v \in StoredCards},
        n \in {NoItem, Item(2)} :
       /\ n.has => c.has
       /\ storage = [specCards |-> c, cardIdCounter |-> n]
  /\ codeTextarea = <<>>
  /\ dragState = [isDragging |-> FALSE, data |-> 0]
  /\ pending = [raf |-> FALSE, debounce |-> FALSE]
  /\ toast = NoToast
  /\ last = Op("none", FALSE)
  /\ issued = {}
  /\ seen = {}
  /\ steps = MaxSteps - PersistOps

NextPersist ==
  \/ InitApp
  \/ loadData
  \/ saveData
  \/ \E atSecond \in BOOLEAN : saveDataThrows(atSecond)
  \/ addCard
  \/ \E confirmed \in BOOLEAN : clearAll(confirmed)
  \/ Reload

\* page loads over stored data, and the loads and saves that follow
SpecPersist == InitPersist /\ [][NextPersist]_vars

(* ------------------------------- reorder ------------------------------- *)
Distinct(cs) == Cardinality(Ids(cs)) = Len(cs)

\* the operations that reorder: calls of reorderCards, drops of both versions
Reorders == {"reorderCards", "drop", "dropV2"}

\* the post-removal insertion index as the specification gives it
PostRemovalIndex(draggedIndex, targetIndex, insertBefore) ==
  IF insertBefore
  THEN (IF targetIndex < draggedIndex THEN targetIndex ELSE targetIndex - 1)
  ELSE (IF targetIndex < draggedIndex THEN targetIndex + 1 ELSE targetIndex)

\* C1: a call of reorderCards with two different ids of a list of distinct ids
\* puts the dragged card at the specification's post-removal index of the list
\* without it, so that it ends immediately before the target when the pointer is
\* above the midpoint of the target and immediately after it otherwise.
C1_ReorderPlacesDragged ==
  [][last'.op = "reorderCards" =>
     \A d \in Ids(cards), t \in Ids(cards), y \in Offsets :
       (Distinct(cards) /\ d # t /\ ReorderCards(d, t, y))
       => LET insertBefore == 2 * y < CardHeight
              at == PostRemovalIndex(FindIndex(cards, d), FindIndex(cards, t),
                                     insertBefore)
          IN  /\ Without(cards', d) = Without(cards, d)
              /\ cards'[at + 1] = cards[FindIndex(cards, d) + 1]
              /\ Len(cards') = Len(cards)
              /\ IF insertBefore
                 THEN FindIndex(cards', d) + 1 = FindIndex(cards', t)
                 ELSE FindIndex(cards', d) = FindIndex(cards', t) + 1
    ]_vars

\* the first operation on the list 1, 2, 3 was reorderCards dragging card 1 to
\* after card 3
C1_Witness ==
  /\ last.op = "reorderCards" /\ last.hit /\ ~last.before
  /\ steps = MaxSteps - ReorderOps + 1
  /\ IdSeq(cards) = <<2, 3, 1>>

\* C2: every reorder, by reorderCards or by a drop handler, leaves a permutation
\* of the list: the same length, the same cards, and the cards other than one
\* (the dragged one) in their order.
C2_ReorderPermutes ==
  [][last'.op \in Reorders =>
       /\ Len(cards') = Len(cards)
       /\ Range(cards') = Range(cards)
       /\ Distinct(cards) => Distinct(cards')
       /\ \/ cards' = cards
          \/ \E d \in Ids(cards) : Without(cards', d) = Without(cards, d)
    ]_vars

\* a drop of the first editor version moved a card of a list of three
C2_Witness ==
  /\ last.op = "drop" /\ last.hit
  /\ Len(cards) = 3 /\ IdSeq(cards) # <<1, 2, 3>>

\* C10: a reorder naming an id that no card of the list has leaves the list as
\* it is, in reorderCards and in the drop handlers.
C10_MissingIdNoOp ==
  [][/\ last'.op \in {"reorderCards", "dropV2"} =>
          \A d \in AnyId, t \in AnyId, y \in Offsets :
            ( /\ d \notin Ids(cards) \/ t \notin Ids(cards)
              /\ ReorderCards(d, t, y) \/ DropV2(d, t, y) )
            => cards' = cards /\ codeTextarea' = codeTextarea
     /\ last'.op = "drop" =>
          \A t \in AnyId, y \in Offsets :
            (dragState.data \notin Ids(cards) /\ Drop(t, y))
            => cards' = cards /\ pending' = pending
    ]_vars

\* reorderCards was called on a list of three cards with an id none of them has
C10_Witness ==
  /\ last.op = "reorderCards" /\ ~last.hit
  /\ steps = MaxSteps - ReorderOps + 1
  /\ IdSeq(cards) = <<1, 2, 3>>

\* C11: a call of reorderCards whose dragged id is the target id leaves the list
\* in its order, for every card of the list and on either side of the midpoint.
C11_SameIdNoOp ==
  [][last'.op = "reorderCards" =>
       \A d \in Ids(cards), y \in Offsets :
         (Distinct(cards) /\ ReorderCards(d, d, y)) => cards' = cards
    ]_vars

\* C12: reorderCards applied once more to its result, with the same dragged id,
\* the same target id and the pointer on the same side of the target's midpoint,
\* gives that result again.
C12_ReorderIdempotent ==
  [][last'.op = "reorderCards" =>
       \A d \in Ids(cards), t \in Ids(cards), y \in Offsets :
         (Distinct(cards) /\ d # t /\ ReorderCards(d, t, y))
         => \A rect \in {TargetRect(cards', t)} :
              /\ InsertBefore(rect.top + y, rect) = last'.before
              /\ reorderCards(cards', d, t, rect.top + y, rect) = cards'
    ]_vars

\* the first operation on the list 1, 2, 3 was reorderCards dragging card 3 to
\* before card 1
C12_Witness ==
  /\ last.op = "reorderCards" /\ last.hit /\ last.before
  /\ steps = MaxSteps - ReorderOps + 1
  /\ IdSeq(cards) = <<3, 1, 2>>

\* C26: a drop of the first editor version on a card other than the dragged
\* one, both in a list of distinct ids, leaves the list that reorderCards gives
\* for the same ids and the same pointer position.
C26_DropAsReorderCards ==
  [][last'.op = "drop" =>
       \A t \in Ids(cards), y \in Offsets :
         ( /\ Distinct(cards) /\ dragState.data \in Ids(cards) /\ dragState.data # t
           /\ Drop(t, y) )
         => \A rect \in {TargetRect(cards, t)} :
              cards' = reorderCards(cards, dragState.data, t, rect.top + y, rect)
    ]_vars

\* the same for every case but the dragged card above the target and the
\* pointer above the target's midpoint
DropAsReorderCardsElsewhere ==
  [][last'.op = "drop" =>
       \A t \in Ids(cards), y \in Offsets :
         ( /\ Distinct(cards) /\ dragState.data \in Ids(cards) /\ dragState.data # t
           /\ ~(FindIndex(cards, dragState.data) < FindIndex(cards, t)
                 /\ 2 * y < CardHeight)
           /\ Drop(t, y) )
         => \A rect \in {TargetRect(cards, t)} :
              cards' = reorderCards(cards, dragState.data, t, rect.top + y, rect)
    ]_vars

(* -------------------------- render and extract ------------------------- *)
\* the lines of a text as the data model defines them: split at line breaks,
\* trimmed, the empty ones dropped
Norm(text) == SelectSeq(MapSeq(Split(text, {"\n"}), Trim), NonEmpty)

\* characters that mean markup in HTML, and what they are written as
MarkupSpecial == {"<", "&", "<br>", "&amp;", "&lt;", "&lt;br&gt;"}
SafeText(text) == \A i \in 1..Len(text) : text[i] \notin MarkupSpecial
SafeCards(cs) == \A i \in 1..Len(cs) : SafeText(cs[i].title) /\ SafeText(cs[i].rows)

\* the import reads the preview of the store as it is
ImportsOwnPreview ==
  /\ last'.op = "parseFromTextarea"
  /\ Len(cards) > 0
  /\ codeTextarea = generateHTML(cards)

\* the i-th card read back has the lines of the i-th card of the store, its
\* title being the placeholder when the title has no line
ReadsBack(i) ==
  /\ cards'[i].rows = Join(Norm(cards[i].rows), NL)
  /\ cards'[i].title = IF Norm(cards[i].title) = <<>> THEN Untitled
                       ELSE Join(Norm(cards[i].title), NL)

\* C3 (as amended): extracting the preview of a non-empty store whose texts have
\* no markup-special character gives as many cards in the same order, with ids
\* 1..N, each with the rows lines of the original and with its title lines, or
\* with the title "Untitled" when the original title has no non-blank line.
C3_RoundTrip ==
  [][(ImportsOwnPreview /\ SafeCards(cards)) =>
       /\ last'.hit
       /\ Len(cards') = Len(cards)
       /\ \A i \in 1..Len(cards) : cards'[i].id = i /\ ReadsBack(i)
    ]_vars

\* C3 as stated: every card read back has the title lines and the rows lines of
\* the original.
C3_RoundTripAsStated ==
  [][(ImportsOwnPreview /\ SafeCards(cards)) =>
       /\ last'.hit
       /\ Len(cards') = Len(cards)
       /\ \A i \in 1..Len(cards) :
            /\ cards'[i].id = i
            /\ Norm(cards'[i].title) = Norm(cards[i].title)
            /\ Norm(cards'[i].rows) = Norm(cards[i].rows)
    ]_vars

\* the preview of the cards 3 and 1 was imported: they came back as 1 and 2
C3_Witness ==
  /\ last.op = "parseFromTextarea" /\ last.hit
  /\ steps = MaxSteps - ExtractOps + 1
  /\ cards = <<Card(1, <<"1">>, <<"1">>), NewCard(2)>>

\* C4: a line with markup-special characters is rendered as escaped text, so
\* that extracting the preview of any non-empty store gives back each card's
\* literal lines.
C4_EscapedRoundTrip ==
  [][ImportsOwnPreview =>
       /\ last'.hit
       /\ Len(cards') = Len(cards)
       /\ \A i \in 1..Len(cards) : ReadsBack(i)
    ]_vars

\* C8: a successful extraction gives its N cards the ids 1..N in document
\* order and returns maxId = N, whatever the markup; the import sets
\* cardIdCounter to N, and the card addCard creates next has the id N + 1.
C8_ImportNumbers ==
  [][/\ (last'.op = "parseFromTextarea" /\ last'.hit) =>
          /\ IdSeq(cards') = [i \in 1..Len(cards') |-> i]
          /\ parseHTMLToCards(Trim(codeTextarea)).maxId = Len(cards')
          /\ cardIdCounter' = Len(cards')
     /\ (last.op = "parseFromTextarea" /\ last.hit /\ last'.op = "addCard") =>
          /\ Len(cards') = Len(cards) + 1
          /\ cards'[Len(cards')].id = Len(cards) + 1
    ]_vars

\* two cards were imported and addCard made the card 3
C8_Witness ==
  /\ last.op = "addCard"
  /\ toast.message = "Successfully imported card(s)!"
  /\ steps = MaxSteps - ExtractOps + 2
  /\ IdSeq(cards) = <<1, 2, 3>> /\ cardIdCounter = 3

\* no element of the text is matched by the block-selection chain: none by the
\* canonical selector in the document, none by it or by a generic selector in
\* the fragment
MatchesNoBlock(htmlContent) ==
  /\ QuerySelectorAll(ParseDocument(htmlContent), ClassSel("spec-card")) = <<>>
  /\ \A sel \in {ClassSel("spec-card")} \cup Range(cardSelectors) :
       QuerySelectorAll(ParseFragment(htmlContent), sel) = <<>>

\* C9: parseHTMLToCards throws "No cards found" exactly when the block-selection
\* chain matches no element: it throws for the preview of an empty store, and
\* it does not throw when a block is matched, even if every block is skipped.
C9_NoCardsFound ==
  [][(last'.op = "parseFromTextarea" /\ Trim(codeTextarea) # <<>>) =>
       \A htmlContent \in {Trim(codeTextarea)} :
         \A result \in {parseHTMLToCards(htmlContent)} :
           /\ result.thrown <=> MatchesNoBlock(htmlContent)
           /\ codeTextarea = generateHTML(<<>>) => result.thrown
           /\ result.thrown <=>
                toast'.message = "Error parsing HTML: No cards found in HTML"
           /\ (~result.thrown /\ result.cards = <<>>) <=>
                toast'.message = "No valid spec cards found in the HTML"
    ]_vars

\* the preview of the empty store was imported and "No cards found" was shown
C9_Witness ==
  /\ last.op = "parseFromTextarea" /\ ~last.hit
  /\ toast.message = "Error parsing HTML: No cards found in HTML"
  /\ codeTextarea = generateHTML(<<>>)

\* a text with one matched block that is skipped was imported: no card was
\* found, and nothing was thrown
C9_WitnessSkipped ==
  /\ last.op = "parseFromTextarea" /\ ~last.hit
  /\ toast.message = "No valid spec cards found in the HTML"
  /\ codeTextarea = <<"<div class=\"spec-card\">", "</div>">>

(* --------------------------------- ids --------------------------------- *)
\* C5: in every state the session reaches, the ids of the cards in the store
\* are pairwise distinct.
C5_IdsDistinct == Distinct(cards)

\* C6: addCard advances cardIdCounter by exactly one and gives the new card an
\* id greater than every id addCard has given before; deleteCard leaves the
\* counter as it is; neither lets it decrease.
C6_IdMonotonic ==
  [][/\ last'.op = "addCard" =>
          /\ cardIdCounter' = cardIdCounter + 1
          /\ cards' = Append(cards, cards'[Len(cards')])
          /\ cards'[Len(cards')].id = cardIdCounter'
          /\ \A i \in issued : cards'[Len(cards')].id > i
     /\ last'.op = "deleteCard" =>
          /\ cardIdCounter' = cardIdCounter
          /\ issued' = issued
     /\ last'.op \in {"addCard", "deleteCard"} => cardIdCounter' >= cardIdCounter
    ]_vars

\* three cards were created, the second was deleted and one more was created:
\* the ids are 1, 3, 4
C6_Witness ==
  /\ last.op = "addCard"
  /\ issued = {1, 2, 3, 4}
  /\ IdSeq(cards) = <<1, 3, 4>>

\* C7 (as amended): the id addCard gives a new card has not been given by
\* addCard since cardIdCounter was last reset, by clearAll, by an import or by
\* loading the stored counter.
C7_NoReuseSinceReset ==
  [][last'.op = "addCard" => cards'[Len(cards')].id \notin issued]_vars

\* C7 as stated: the id addCard gives a new card was never the id of a card
\* since the page was loaded.
C7_NoReuseInSession ==
  [][last'.op = "addCard" => cards'[Len(cards')].id \notin seen]_vars

\* addCard made a card after an import of two cards
C7_Witness ==
  /\ last.op = "addCard"
  /\ toast.message = "Successfully imported card(s)!"
  /\ issued = {3} /\ seen = {1, 2, 3}

(* ------------------------- extraction of markup ------------------------ *)
\* the elements of the text that have the class
WithClass(htmlContent, class) == QuerySelectorAll(ParseFragment(htmlContent), ClassSel(class))

\* the text has no canonical class, and elements of the class card
OnlyGenericCards(htmlContent) ==
  /\ \A class \in {"spec-card", "spec-header", "spec-content"} :
       WithClass(htmlContent, class) = <<>>
  /\ WithClass(htmlContent, "card") # <<>>

\* a header and a content element can be resolved for the block
Resolvable(block) ==
  \A r \in {Resolve(block)} : r.header # <<>> /\ r.content # <<>>

\* C15 (as amended): for a text with no canonical class and with elements of
\* the class card, parseHTMLToCards does not throw and takes exactly the .card
\* elements as its blocks; it returns as many cards as there are .card elements
\* when a header and a content element can be resolved for each of them, and
\* these cards are imported.
C15_GenericCards ==
  [][last'.op = "parseFromTextarea" =>
       \A htmlContent \in {Trim(codeTextarea)} :
         OnlyGenericCards(htmlContent) =>
           \A result \in {parseHTMLToCards(htmlContent)},
              containers \in {WithClass(htmlContent, "card")} :
             /\ ~result.thrown
             /\ SelectBlocks(htmlContent) = containers
             /\ (\A i \in 1..Len(containers) : Resolvable(containers[i])) =>
                  /\ Len(result.cards) = Len(containers)
                  /\ cards' = result.cards
    ]_vars

\* C15 as stated: parseHTMLToCards returns as many cards as there are .card
\* elements, whatever they contain.
C15_GenericCardsAsStated ==
  [][last'.op = "parseFromTextarea" =>
       \A htmlContent \in {Trim(codeTextarea)} :
         OnlyGenericCards(htmlContent) =>
           \A result \in {parseHTMLToCards(htmlContent)} :
             /\ ~result.thrown
             /\ Len(result.cards) = Len(WithClass(htmlContent, "card"))
    ]_vars

\* two .card blocks, one with a heading and a paragraph and one with a title and
\* a text of two lines, were imported as two cards
C15_Witness ==
  /\ last.op = "parseFromTextarea" /\ last.hit
  /\ cards = <<Card(1, <<"1">>, <<"2">>), Card(2, <<"2">>, <<"1", "\n", "2">>)>>

\* the card read from a block: the lines of its header and of its content
CardOf(block, id) ==
  With(Resolve(block), LAMBDA r :
    With2(RowsOf(r.header[1]), RowsOf(r.content[1]), LAMBDA titleRows, contentRows :
      Card(id, IF titleRows = <<>> THEN Untitled ELSE Join(titleRows, NL),
           Join(contentRows, NL))))

\* C16: when the chain matches blocks, parseHTMLToCards does not throw, and its
\* result is the blocks with a header and a content element, in document
\* order, numbered 1..N without a gap, each read from its own block; a block
\* without one of the two is left out.  The import takes these cards, or
\* leaves the store when there is none.
C16_SkipsUnresolved ==
  [][last'.op = "parseFromTextarea" =>
       \A htmlContent \in {Trim(codeTextarea)} :
         \A blocks \in {IF htmlContent = <<>> THEN <<>> ELSE SelectBlocks(htmlContent)} :
           blocks # <<>> =>
             \A result \in {parseHTMLToCards(htmlContent)},
                kept \in {SelectSeq(blocks, Resolvable)} :
               /\ ~result.thrown
               /\ result.maxId = Len(kept)
               /\ result.cards = [i \in 1..Len(kept) |-> CardOf(kept[i], i)]
               /\ cards' = IF kept = <<>> THEN cards ELSE result.cards
               /\ last'.hit <=> kept # <<>>
    ]_vars

\* three .card blocks whose second has a heading and no content were imported:
\* the first and the third are the cards 1 and 2
C16_Witness ==
  /\ last.op = "parseFromTextarea" /\ last.hit
  /\ cards = <<Card(1, <<"1">>, <<"2">>), Card(2, <<"2">>, <<"1">>)>>

(* ------------------------------ rendering ------------------------------ *)
\* the lines a region of the document holds: the text between its line-break
\* elements, trimmed
RegionLines(region) ==
  With([i \in 1..Len(region.kids) |->
          IF IsElement(region.kids[i]) THEN "<br>" ELSE region.kids[i].t],
       LAMBDA content : MapSeq(Split(content, {"<br>"}), Trim))

\* the region holds the non-blank lines of the text, in order, and nothing
\* else: one empty piece when the text has no such line
HoldsLines(region, text) ==
  /\ \A i \in 1..Len(region.kids) :
       IsElement(region.kids[i]) => ElemName(region.kids[i]) = "br"
  /\ \A lines \in {SelectSeq(Norm(text), NonEmpty)} :
       RegionLines(region) = IF lines = <<>> THEN << <<>> >> ELSE lines

\* the document of the store, read as a browser reads it, has one card block
\* per card, in store order, each with one header region that holds the title's
\* non-blank lines and one content region that holds the non-blank lines of
\* the rows
RendersStore(cs) ==
  \A blocks \in {QuerySelectorAll(ParseDocument(generateHTML(cs)),
                                   ClassSel("spec-card"))} :
    /\ Len(blocks) = Len(cs)
    /\ \A i \in 1..Len(blocks) :
         \A headers \in {QuerySelectorAll(blocks[i].kids, ClassSel("spec-header"))},
            contents \in {QuerySelectorAll(blocks[i].kids, ClassSel("spec-content"))} :
           /\ Len(headers) = 1 /\ Len(contents) = 1
           /\ Children(blocks[i]) = <<headers[1], contents[1]>>
           /\ HoldsLines(headers[1], cs[i].title)
           /\ HoldsLines(contents[1], cs[i].rows)

\* C20: generateHTML gives, for every store, a document with exactly one card
\* block per card in store order, each with one header region holding the
\* card's non-blank title lines and one content region holding its non-blank
\* rows lines, in order and separated by line breaks; the empty store gives a
\* document without card blocks.
C20_RenderStructure == RendersStore(cards)

\* the same for stores whose texts have no tag and no character reference
RenderStructureOfText ==
  (\A i \in 1..Len(cards) :
     (Range(cards[i].title) \cup Range(cards[i].rows))
       \cap {"<br>", "&amp;", "&lt;", "&lt;br&gt;"} = {})
  => RendersStore(cards)

(* ------------------------- the store's operations ---------------------- *)
\* C17: addCard can run whenever the editor is ready, and a call appends
\* exactly one card at the end: its id is the previous counter plus one, which
\* the counter becomes, its title is "New Card Title" and its rows are
\* "Row 1\nRow 2"; the cards before it are the previous list.
C17_AddAppends ==
  [][/\ (phase = "ready" /\ steps < MaxSteps /\ cardIdCounter < MaxCounter
         /\ Len(cards) < MaxCards) => ENABLED addCard
     /\ last'.op = "addCard" =>
          /\ Len(cards') = Len(cards) + 1
          /\ SubSeq(cards', 1, Len(cards)) = cards
          /\ cards'[Len(cards')] = [id |-> cardIdCounter + 1,
                                    title |-> <<"New Card Title">>,
                                    rows |-> <<"Row 1", "\n", "Row 2">>]
          /\ cardIdCounter' = cardIdCounter + 1
    ]_vars

\* addCard added the card 3 to a list whose first card has an edited title
C17_Witness ==
  /\ last.op = "addCard"
  /\ Len(cards) = 2 /\ cards[1].title = <<"2">> /\ cards[2] = NewCard(3)

\* deleteCard(id) took one card of that id out of the list, or found none and
\* left the list; the counter is as it was
DeletesOne(id) ==
  /\ cardIdCounter' = cardIdCounter
  /\ IF id \in Ids(cards)
     THEN \E i \in 1..Len(cards) : cards[i].id = id /\ cards' = SpliceOut(cards, i - 1)
     ELSE cards' = cards

\* C18: deleteCard(id) removes exactly the card with that id when it is
\* present, keeping the other cards, their order and the counter; when no card
\* has the id, the list and the counter stay.
C18_DeleteRemovesOne ==
  [][last'.op = "deleteCard" =>
       \A id \in AnyId : deleteCard(id) => DeletesOne(id)
    ]_vars

\* the same for a list of distinct ids
DeleteRemovesOneOfDistinct ==
  [][(last'.op = "deleteCard" /\ Distinct(cards)) =>
       \A id \in AnyId : deleteCard(id) => DeletesOne(id)
    ]_vars

\* C19: a confirmed clearAll leaves no card, the counter 0 and neither item in
\* localStorage; a clearAll that is not confirmed leaves the cards, the counter
\* and localStorage as they were.
C19_ClearAll ==
  [][last'.op = "clearAll" =>
       IF last'.hit
       THEN /\ cards' = <<>> /\ cardIdCounter' = 0
            /\ ~storage'.specCards.has /\ ~storage'.cardIdCounter.has
            /\ codeTextarea' = generateHTML(<<>>)
       ELSE /\ cards' = cards /\ cardIdCounter' = cardIdCounter
            /\ storage' = storage /\ codeTextarea' = codeTextarea
    ]_vars

\* the cards were saved and then cleared: nothing is left in localStorage
C19_Witness ==
  /\ last.op = "clearAll" /\ last.hit
  /\ toast.message = "Data saved successfully!"
  /\ cards = <<>> /\ cardIdCounter = 0
  /\ storage = [specCards |-> NoItem, cardIdCounter |-> NoItem]

\* the generic selectors in their order of priority
GenericOrder ==
  << ClassSel("card"), ClassSel("content-card"), ClassSel("item"), ClassSel("box"),
     [kind |-> "divClassHasCard", v |-> "card"], TagSel("article"), TagSel("section") >>

\* C22: the blocks are the canonical .spec-card elements of the document parse
\* when there are any, else those of the fragment parse when there are any,
\* else the elements of the first generic selector, in the order .card,
\* .content-card, .item, .box, div[class*=card], article, section, that matches
\* an element, and of that selector alone; else there are none.
C22_PriorityChain ==
  [][(last'.op = "parseFromTextarea" /\ Trim(codeTextarea) # <<>>) =>
       \A htmlContent \in {Trim(codeTextarea)} :
         \A blocks \in {SelectBlocks(htmlContent)},
            inDoc \in {QuerySelectorAll(ParseDocument(htmlContent), ClassSel("spec-card"))},
            inFragment \in {WithClass(htmlContent, "spec-card")},
            found \in {[k \in 1..Len(GenericOrder) |->
                         QuerySelectorAll(ParseFragment(htmlContent), GenericOrder[k])]} :
           /\ inDoc # <<>> => blocks = inDoc
           /\ (inDoc = <<>> /\ inFragment # <<>>) => blocks = inFragment
           /\ (inDoc = <<>> /\ inFragment = <<>>) =>
                /\ \A k \in 1..Len(found) :
                     (found[k] # <<>> /\ \A j \in 1..(k - 1) : found[j] = <<>>)
                     => blocks = found[k]
                /\ (\A k \in 1..Len(found) : found[k] = <<>>) => blocks = <<>>
           /\ (blocks = <<>>) <=> ~last'.hit /\ toast'.message =
                                     "Error parsing HTML: No cards found in HTML"
    ]_vars

\* a text with a section before an article was imported: the block is the
\* article, whose only child is header and content of the card
C22_Witness ==
  /\ last.op = "parseFromTextarea" /\ last.hit
  /\ cards = <<Card(1, <<"1">>, <<"1">>)>>

\* some element below the block is found by one of the selectors
FoundBy(block, selectors) ==
  \E k \in 1..Len(selectors) : QuerySelectorAll(block.kids, selectors[k]) # <<>>

\* what the structural fallback makes of a block in which no selector finds a
\* header or a content element
FallsBack(block, r) ==
  \A children \in {Children(block)}, text \in {Trim(TextContent(block))} :
    IF Len(children) >= 2
      THEN r.header = <<children[1]>> /\ r.content = <<children[2]>>
    ELSE IF Len(children) = 1
      THEN r.header = <<children[1]>> /\ r.content = <<children[1]>>
    ELSE IF text = <<>> THEN r.header = <<>> /\ r.content = <<>>
    ELSE \A lines \in {Norm(text)} :
           /\ Len(r.header) = 1 /\ Len(r.content) = 1
           /\ IF Len(lines) > 1
              THEN /\ TextContent(r.header[1]) = lines[1]
                   /\ RowsOf(r.content[1]) = Tail(lines)
              ELSE /\ TextContent(r.header[1]) = text
                   /\ TextContent(r.content[1]) = text

RendersLines(text, extracted) ==
  extracted # <<>> => MapSeq(LinesOf(text), Trim) = extracted

\* a line break inside one of the extracted lines
BreaksInside(extracted) ==
  \E k \in 1..Len(extracted) : "\n" \in Range(extracted[k])

\* the lines of an element: the pieces of its markup between line-break
\* elements, trimmed, the empty ones dropped
ElementLines(el) ==
  With([i \in 1..Len(el.kids) |->
          IF IsElement(el.kids[i]) /\ ElemName(el.kids[i]) = "br" THEN <<"<br>">>
          ELSE Serialize(el.kids[i])],
       LAMBDA parts : SelectSeq(MapSeq(Split(Concat(parts), {"<br>"}), Trim), NonEmpty))

\* C24: the lines extracted from a header or content element are the pieces
\* between its line-break elements, trimmed, without the empty ones, so that
\* text with a newline and no line break is one line; and the card that is
\* imported has exactly these lines when it is rendered again.
C24_OnlyBreaksDelimit ==
  [][(last'.op = "parseFromTextarea" /\ last'.hit) =>
       \A kept \in {SelectSeq(SelectBlocks(Trim(codeTextarea)), Resolvable)} :
         \A i \in 1..Len(kept) :
           \A r \in {Resolve(kept[i])} :
             \A titleRows \in {ElementLines(r.header[1])},
                contentRows \in {ElementLines(r.content[1])} :
               /\ titleRows = RowsOf(r.header[1])
               /\ contentRows = RowsOf(r.content[1])
               /\ RendersLines(cards'[i].title, titleRows)
               /\ RendersLines(cards'[i].rows, contentRows)
    ]_vars

\* the same for elements whose lines have no newline inside
OnlyBreaksDelimitWithoutNewline ==
  [][(last'.op = "parseFromTextarea" /\ last'.hit) =>
       \A kept \in {SelectSeq(SelectBlocks(Trim(codeTextarea)), Resolvable)} :
         \A i \in 1..Len(kept) :
           \A r \in {Resolve(kept[i])} :
             \A titleRows \in {ElementLines(r.header[1])},
                contentRows \in {ElementLines(r.content[1])} :
               /\ titleRows = RowsOf(r.header[1])
               /\ contentRows = RowsOf(r.content[1])
               /\ ~BreaksInside(titleRows) => RendersLines(cards'[i].title, titleRows)
               /\ ~BreaksInside(contentRows) => RendersLines(cards'[i].rows, contentRows)
    ]_vars

\* titles and rows of the cards, in order
TitlesAndRows(cs) == [i \in 1..Len(cs) |-> <<cs[i].title, cs[i].rows>>]

\* extracting what the renderer makes of the cards gives their titles and rows
ExtractsAgain(cs) ==
  \A again \in {parseHTMLToCards(Trim(generateHTML(cs)))} :
    ~again.thrown /\ TitlesAndRows(again.cards) = TitlesAndRows(cs)

\* a newline inside the title or the rows of one of the cards that is not the
\* end of a line: blanks stand next to it
NewlineInsideLine(cs) ==
  \E i \in 1..Len(cs) : \E text \in {cs[i].title, cs[i].rows} :
    \E k \in 1..Len(text) :
      /\ text[k] = "\n"
      /\ \/ k > 1 /\ text[k - 1] = " "
         \/ k < Len(text) /\ text[k + 1] = " "

\* C30: an imported card whose header has no non-empty line has the title
\* "Untitled", one whose content has no non-empty line has empty rows, and
\* extracting the rendering of the imported cards gives their titles and rows
\* again.
C30_NormalizationIdempotent ==
  [][(last'.op = "parseFromTextarea" /\ last'.hit) =>
       /\ \A kept \in {SelectSeq(SelectBlocks(Trim(codeTextarea)), Resolvable)} :
            /\ Len(cards') = Len(kept)
            /\ \A i \in 1..Len(kept) :
                 \A r \in {Resolve(kept[i])} :
                   /\ ElementLines(r.header[1]) = <<>> => cards'[i].title = <<"Untitled">>
                   /\ ElementLines(r.content[1]) = <<>> => cards'[i].rows = <<>>
       /\ ExtractsAgain(cards')
    ]_vars

\* the same for imports whose lines have no newline inside
NormalizationIdempotentOfLines ==
  [][(last'.op = "parseFromTextarea" /\ last'.hit) =>
       /\ \A kept \in {SelectSeq(SelectBlocks(Trim(codeTextarea)), Resolvable)} :
            /\ Len(cards') = Len(kept)
            /\ \A i \in 1..Len(kept) :
                 \A r \in {Resolve(kept[i])} :
                   /\ ElementLines(r.header[1]) = <<>> => cards'[i].title = <<"Untitled">>
                   /\ ElementLines(r.content[1]) = <<>> => cards'[i].rows = <<>>
       /\ ~NewlineInsideLine(cards') => ExtractsAgain(cards')
    ]_vars

\* a card with the placeholder title and empty rows was imported
PlaceholderImported ==
  /\ last.op = "parseFromTextarea" /\ last.hit
  /\ \E i \in 1..Len(cards) : cards[i].title = <<"Untitled">> /\ cards[i].rows = <<>>

\* a header whose one line has a newline inside was imported: the rendering of
\* the card is extracted as a card of two title lines
C30_NotIdempotent ==
  /\ last.op = "parseFromTextarea" /\ last.hit
  /\ NewlineInsideLine(cards)
  /\ ~ExtractsAgain(cards)

\* C28: an import of blank text, of text in which no block is found, or of
\* text whose blocks are all skipped shows an error and leaves cards and
\* cardIdCounter as they were; cards and counter are replaced exactly when the
\* extraction returns at least one card.
C28_FailedImportKeepsStore ==
  [][last'.op = "parseFromTextarea" =>
       \A htmlContent \in {Trim(codeTextarea)} :
         \A result \in {IF htmlContent = <<>> THEN [thrown |-> FALSE, cards |-> <<>>]
                         ELSE parseHTMLToCards(htmlContent)} :
           IF htmlContent = <<>> \/ result.thrown \/ result.cards = <<>>
           THEN /\ cards' = cards /\ cardIdCounter' = cardIdCounter
                /\ codeTextarea' = codeTextarea
                /\ toast'.type = "error" /\ ~last'.hit
           ELSE /\ cards' = result.cards /\ cardIdCounter' = Len(result.cards)
                /\ toast'.type = "success" /\ last'.hit
    ]_vars

\* a text whose only block is skipped was imported into a store with a card:
\* the card is still there
C28_Witness ==
  /\ last.op = "parseFromTextarea" /\ ~last.hit
  /\ toast.message = "No valid spec cards found in the HTML"
  /\ Len(cards) = 1 /\ cardIdCounter = 1

(* ----------------------------- persistence ----------------------------- *)
\* C13: a save whose write throws and a load whose stored cards cannot be parsed
\* show an error notification and leave cards and cardIdCounter as they were.
C13_FailureKeepsStore ==
  [][/\ last'.op = "saveDataThrows" =>
          /\ cards' = cards /\ cardIdCounter' = cardIdCounter
          /\ toast'.type = "error"
     /\ (last'.op = "loadData" /\ storage.specCards.has /\ ~storage.specCards.valid) =>
          /\ cards' = cards /\ cardIdCounter' = cardIdCounter
          /\ toast'.type = "error"
    ]_vars

\* the text is the single-text form of the stored value: the stored text itself,
\* or the text whose lines, cut at the line breaks, are the stored lines
SingleText(stored, text) ==
  IF stored.type = "string" THEN text = stored.v[1]
  ELSE IF Len(stored.v) = 0 THEN text = <<>>
  ELSE Split(text, {"\n"}) = stored.v

\* C14: after a load of stored cards, at page load or by the Load button, every
\* card has the stored id, and its title and rows are single texts: a stored
\* array of lines has become the lines joined by line breaks, in order, and a
\* stored text is the text.
C14_LoadJoinsLines ==
  [][(/\ last'.op \in {"init", "loadData"}
      /\ storage.specCards.has /\ storage.specCards.valid
      /\ Len(storage.specCards.val) > 0) =>
       \A val \in {storage.specCards.val} :
         /\ Len(cards') = Len(val)
         /\ \A i \in 1..Len(val) :
              /\ cards'[i].id = val[i].id
              /\ SingleText(val[i].title, cards'[i].title)
              /\ SingleText(val[i].rows, cards'[i].rows)
    ]_vars

\* a card stored with the title ["1", "2"] was loaded: its title is "1\n2"
C14_Witness ==
  /\ last.op \in {"init", "loadData"} /\ last.hit
  /\ Len(cards) = 1 /\ Len(storage.specCards.val) = 1
  /\ storage.specCards.val[1].title = Arr(<<<<"1">>, <<"2">>>>)
  /\ cards[1].title = <<"1", "\n", "2">>

(* ------------------------------- refresh ------------------------------- *)
\* the operations that change the store when they find what they name, and the
\* callbacks that refresh the editor and the preview
Mutations == {"addCard", "deleteCard", "updateCardTitle", "updateRows", "drop",
              "dropV2", "reorderCards", "parseFromTextarea", "clearAll"}
Refreshes == {"animationFrame", "debounceTimer"}

\* C21: when the last operation was a mutation of the store that had its
\* effect, or a refresh callback, and no refresh is scheduled any more, the
\* code view holds generateHTML of the store.
C21_CodeViewFollowsStore ==
  ( /\ \/ last.op \in Mutations /\ last.hit
       \/ last.op \in Refreshes
    /\ ~pending.raf /\ ~pending.debounce )
  => codeTextarea = generateHTML(cards)

\* a drop of the first editor version moved a card and the animation frame
\* has run: the code view shows the new order
C21_Witness ==
  /\ last.op = "animationFrame"
  /\ ~pending.raf /\ ~pending.debounce
  /\ IdSeq(cards) = <<2, 1>>
  /\ codeTextarea = generateHTML(cards)

\* the cards that are in the list before and after the step are in the same
\* order
KeepsOrder ==
  SelectSeq(IdSeq(cards), LAMBDA id : id \in Ids(cards'))
    = SelectSeq(IdSeq(cards'), LAMBDA id : id \in Ids(cards))

\* the i-th card block of the document shows the title of the i-th card
ShowsInOrder(doc, cs) ==
  \A blocks \in {QuerySelectorAll(ParseDocument(doc), ClassSel("spec-card"))} :
    /\ Len(blocks) = Len(cs)
    /\ \A i \in 1..Len(cs) :
         HoldsLines(QuerySelector(blocks[i], ClassSel("spec-header"))[1], cs[i].title)

\* the operations that neither reorder nor replace the list
KeepingOps == {"addCard", "deleteCard", "updateCardTitle", "updateRows", "saveData",
               "animationFrame", "debounceTimer"}

\* C25: addCard, deleteCard, updateCardTitle, updateRows, saveData and the
\* refresh callbacks leave the cards that stay in their order, and a refresh
\* writes the card blocks of the code view in the order of the list.
C25_OrderKept ==
  [][/\ last'.op \in KeepingOps => KeepsOrder
     /\ (last'.op \in KeepingOps \ {"saveData"} /\ codeTextarea' # codeTextarea) =>
          ShowsInOrder(codeTextarea', cards')
    ]_vars

\* the cards 1 and 2 were put in the order 2, 1 and the title of card 1 was
\* edited: the code view shows card 2 first
C25_Witness ==
  /\ last.op = "updateCardTitle" /\ last.hit
  /\ IdSeq(cards) = <<2, 1>> /\ cards[2].title = <<"2">>
  /\ codeTextarea = generateHTML(cards)

\* the operations that change cards or the counter in memory and leave
\* localStorage alone
InMemoryOps == {"addCard", "deleteCard", "updateCardTitle", "updateRows", "drop",
                "dropV2", "reorderCards", "parseFromTextarea"}

\* C29: a successful saveData stores the card list and the counter of that
\* moment, the in-memory mutations leave what is stored, and a loadData that
\* finds both items makes cards and cardIdCounter what the save stored: the
\* same ids, titles, rows and order, and the same counter.
C29_SaveLoadRoundTrip ==
  [][/\ last'.op = "saveData" =>
          /\ storage'.specCards.has /\ storage'.specCards.valid
          /\ storage'.cardIdCounter.has
          /\ Loaded(<<>>, 0, storage') = [thrown |-> FALSE, cards |-> cards,
                                          counter |-> cardIdCounter]
          /\ cards' = cards /\ cardIdCounter' = cardIdCounter
     /\ last'.op \in InMemoryOps => storage' = storage
     /\ (last'.op = "loadData" /\ storage.specCards.has /\ storage.cardIdCounter.has) =>
          /\ Len(cards') = Len(storage.specCards.val)
          /\ \A i \in 1..Len(cards') :
               /\ cards'[i].id = storage.specCards.val[i].id
               /\ Str(cards'[i].title) = storage.specCards.val[i].title
               /\ Str(cards'[i].rows) = storage.specCards.val[i].rows
          /\ cardIdCounter' = storage.cardIdCounter.val
          /\ storage' = storage
    ]_vars

\* card 1 was saved with the counter 1, a card 2 was added and taken away
\* again or left, and loadData brought back the list of card 1 and the counter 1
C29_Witness ==
  /\ last.op = "loadData" /\ last.hit
  /\ toast.message = "Data saved successfully!"
  /\ seen = {1, 2}
  /\ cards = <<NewCard(1)>> /\ cardIdCounter = 1

(* ------------------------------ the counter ---------------------------- *)
\* C27: in every state of the session, in which a save can fail after the
\* cards are written and before the counter is, cardIdCounter is at least the
\* largest id of a card in the list.
C27_CounterCoversIds == \A i \in 1..Len(cards) : cards[i].id <= cardIdCounter

====
